---- MODULE Spec2Model ----
(***************************************************************************)
(* Model of the two reverse-resolve scripts of nxt3d/chain-resolver:       *)
(*   hex-suffix variant  src/deploy/ReverseResolveByChainId.ts             *)
(*   raw-byte variant    src/unnamed/part_000                              *)
(* A JavaScript string is a sequence of UTF-16 code units, a byte string a *)
(* sequence of numbers in 0..255.  The ethers (v6) and Buffer functions    *)
(* the scripts call are operators that compute what those functions        *)
(* compute.                                                                *)
(***************************************************************************)
EXTENDS Integers, Sequences, FiniteSets, TLC

\* ------------------------------------------------------------------ bounds
\* longest enumerated answer to the "Chain ID" prompt
MaxInLen == 3
\* longest enumerated raw (not ABI-wrapped) byte answer under the data selector
MaxRawLen == 2

\* ------------------------------------------------- strings and hex digits
\* JS `undefined` for a string or byte valued variable
Undefined == << -1 >>

\* "chain-name:"
Prefix == <<99, 104, 97, 105, 110, 45, 110, 97, 109, 101, 58>>

\* ".cid.eth"
Suffix == <<46, 99, 105, 100, 46, 101, 116, 104>>

\* "0123456789abcdef"
HexChars == <<48, 49, 50, 51, 52, 53, 54, 55, 56, 57, 97, 98, 99, 100, 101, 102>>

IsWhiteSpace(c) == c \in {9, 10, 11, 12, 13, 32, 160}

\* String.prototype.trim
RECURSIVE trim(_)
trim(s) ==
  IF s = <<>> THEN s
  ELSE IF IsWhiteSpace(s[1]) THEN trim(Tail(s))
  ELSE IF IsWhiteSpace(s[Len(s)]) THEN trim(SubSeq(s, 1, Len(s) - 1))
  ELSE s

IsHexDigit(c) == c \in 48..57 \/ c \in 65..70 \/ c \in 97..102

HexVal(c) == IF c \in 48..57 THEN c - 48 ELSE IF c \in 65..70 THEN c - 55 ELSE c - 87

\* ethers isHexString(value): /^0x[0-9A-Fa-f]*$/, no length argument
isHexString(s) ==
  /\ Len(s) >= 2
  /\ s[1] = 48
  /\ s[2] = 120
  /\ \A i \in 3..Len(s) : IsHexDigit(s[i])

\* getBytes that does not insist on whole bytes
getBytesOk_oddAllowed(s) ==
  /\ Len(s) >= 2
  /\ s[1] = 48
  /\ s[2] \in {120, 88}
  /\ \A i \in 3..Len(s) : IsHexDigit(s[i])

\* ethers getBytes(value) accepts a string matching /^0x(?:[0-9a-f][0-9a-f])*$/i
getBytesOk(s) ==
  /\ Len(s) >= 2
  /\ s[1] = 48
  /\ s[2] \in {120, 88}
  /\ Len(s) % 2 = 0
  /\ \A i \in 3..Len(s) : IsHexDigit(s[i])

getBytes(s) ==
  [i \in 1..((Len(s) - 2) \div 2) |-> 16 * HexVal(s[2 * i + 1]) + HexVal(s[2 * i + 2])]

\* digits of s in the given base, most significant first
RECURSIVE DigitsValue(_, _, _)
DigitsValue(s, base, acc) ==
  IF s = <<>> THEN acc ELSE DigitsValue(Tail(s), base, acc * base + HexVal(s[1]))

IsDigitOfBase(c, base) == IsHexDigit(c) /\ HexVal(c) < base

AllDigits(s, base) == s # <<>> /\ \A i \in 1..Len(s) : IsDigitOfBase(s[i], base)

\* BigInt(string): StringToBigInt.  The empty string is 0n; a sign is allowed
\* before decimal digits only; 0x, 0o and 0b prefixes in either case.
BigInt(s) ==
  IF s = <<>> THEN [ok |-> TRUE, n |-> 0]
  ELSE IF Len(s) >= 2 /\ s[1] = 48 /\ s[2] \in {120, 88}
    THEN [ok |-> AllDigits(SubSeq(s, 3, Len(s)), 16), n |-> DigitsValue(SubSeq(s, 3, Len(s)), 16, 0)]
  ELSE IF Len(s) >= 2 /\ s[1] = 48 /\ s[2] \in {111, 79}
    THEN [ok |-> AllDigits(SubSeq(s, 3, Len(s)), 8), n |-> DigitsValue(SubSeq(s, 3, Len(s)), 8, 0)]
  ELSE IF Len(s) >= 2 /\ s[1] = 48 /\ s[2] \in {98, 66}
    THEN [ok |-> AllDigits(SubSeq(s, 3, Len(s)), 2), n |-> DigitsValue(SubSeq(s, 3, Len(s)), 2, 0)]
  ELSE IF s[1] = 45
    THEN [ok |-> AllDigits(Tail(s), 10), n |-> 0 - DigitsValue(Tail(s), 10, 0)]
  ELSE IF s[1] = 43
    THEN [ok |-> AllDigits(Tail(s), 10), n |-> DigitsValue(Tail(s), 10, 0)]
  ELSE [ok |-> AllDigits(s, 10), n |-> DigitsValue(s, 10, 0)]

\* lowercase hex digits of a byte string, two per byte
HexDigitsOf(b) ==
  [i \in 1..(2 * Len(b)) |->
     IF i % 2 = 1 THEN HexChars[(b[(i + 1) \div 2] \div 16) + 1]
     ELSE HexChars[(b[i \div 2] % 16) + 1]]

\* ethers hexlify(data: BytesLike): the argument goes through getBytes, which
\* accepts a Uint8Array or a data hex string and rejects every other value
\* with "invalid BytesLike value"; a bigint is such a value.
hexlify(v) ==
  IF v.kind = "bytes" THEN [ok |-> TRUE, hex |-> <<48, 120>> \o HexDigitsOf(v.bytes)]
  ELSE [ok |-> FALSE, hex |-> <<>>]

\* Buffer.from(hex, 'hex') on an even-length string of hex digits
BufferFromHex(h) ==
  [i \in 1..(Len(h) \div 2) |-> 16 * HexVal(h[2 * i - 1]) + HexVal(h[2 * i])]

\* (encoded as string).replace(/^0x/, "")
Strip0x(h) == IF Len(h) >= 2 /\ h[1] = 48 /\ h[2] = 120 THEN SubSeq(h, 3, Len(h)) ELSE h

\* ----------------------------------------------------------------- UTF-8
\* ethers toUtf8Bytes(str): UTF-16 code units to UTF-8 bytes; a high
\* surrogate must be followed by a low surrogate
RECURSIVE toUtf8Bytes(_)
toUtf8Bytes(s) ==
  IF s = <<>> THEN [ok |-> TRUE, bytes |-> <<>>]
  ELSE LET c == s[1] IN
    IF c < 128 THEN
      LET r == toUtf8Bytes(Tail(s)) IN [ok |-> r.ok, bytes |-> <<c>> \o r.bytes]
    ELSE IF c < 2048 THEN
      LET r == toUtf8Bytes(Tail(s)) IN
      [ok |-> r.ok, bytes |-> <<192 + (c \div 64), 128 + (c % 64)>> \o r.bytes]
    ELSE IF c \in 55296..56319 THEN
      IF Len(s) < 2 \/ s[2] \notin 56320..57343 THEN [ok |-> FALSE, bytes |-> <<>>]
      ELSE LET pair == 65536 + (c % 1024) * 1024 + (s[2] % 1024)
               r == toUtf8Bytes(Tail(Tail(s)))
           IN [ok |-> r.ok,
               bytes |-> <<240 + (pair \div 262144), 128 + ((pair \div 4096) % 64),
                           128 + ((pair \div 64) % 64), 128 + (pair % 64)>> \o r.bytes]
    ELSE
      LET r == toUtf8Bytes(Tail(s)) IN
      [ok |-> r.ok,
       bytes |-> <<224 + (c \div 4096), 128 + ((c \div 64) % 64), 128 + (c % 64)>> \o r.bytes]

\* a code point as UTF-16 code units
CodeUnits(cp) ==
  IF cp < 65536 THEN <<cp>>
  ELSE <<55296 + ((cp - 65536) \div 1024), 56320 + ((cp - 65536) % 1024)>>

\* UTF-8 decoder state.  str is the decoded text with U+FFFD in place of every
\* ill-formed subsequence (what Buffer.toString('utf8') returns); ok is FALSE
\* once there was such a subsequence (where ethers toUtf8String throws).
\* need: continuation bytes still expected, cp: code point so far,
\* lo..hi: range allowed for the next continuation byte.
Utf8Start == [str |-> <<>>, ok |-> TRUE, need |-> 0, cp |-> 0, lo |-> 128, hi |-> 191]

Utf8Emit(st, units, good) ==
  [str |-> st.str \o units, ok |-> st.ok /\ good, need |-> 0, cp |-> 0, lo |-> 128, hi |-> 191]

\* a byte that starts a sequence
Utf8Lead(st, x) ==
  IF x < 128 THEN Utf8Emit(st, <<x>>, TRUE)
  ELSE IF x \in 194..223 THEN [st EXCEPT !.need = 1, !.cp = x % 32]
  ELSE IF x \in 224..239 THEN
    [st EXCEPT !.need = 2, !.cp = x % 16,
               !.lo = IF x = 224 THEN 160 ELSE 128, !.hi = IF x = 237 THEN 159 ELSE 191]
  ELSE IF x \in 240..244 THEN
    [st EXCEPT !.need = 3, !.cp = x % 8,
               !.lo = IF x = 240 THEN 144 ELSE 128, !.hi = IF x = 244 THEN 143 ELSE 191]
  ELSE Utf8Emit(st, <<65533>>, FALSE)

\* one byte: a byte outside the expected range ends the sequence in error
\* and is then read again as a lead byte
Utf8Step(st, x) ==
  IF st.need = 0 THEN Utf8Lead(st, x)
  ELSE IF x \notin st.lo..st.hi THEN Utf8Lead(Utf8Emit(st, <<65533>>, FALSE), x)
  ELSE IF st.need = 1 THEN Utf8Emit(st, CodeUnits(st.cp * 64 + (x % 64)), TRUE)
  ELSE [st EXCEPT !.need = @ - 1, !.cp = @ * 64 + (x % 64), !.lo = 128, !.hi = 191]

\* the bytes b[i..j] in order, from state st, by halves; the test on the
\* state after the left half has it computed before the right half starts
RECURSIVE Utf8Scan(_, _, _, _)
Utf8Scan(b, i, j, st) ==
  IF i > j THEN st
  ELSE IF i = j THEN Utf8Step(st, b[i])
  ELSE LET left == Utf8Scan(b, i, (i + j) \div 2, st) IN
       IF left.need = 0 THEN Utf8Scan(b, ((i + j) \div 2) + 1, j, left)
       ELSE Utf8Scan(b, ((i + j) \div 2) + 1, j, left)

\* end of input inside a sequence is an error too
Utf8Decode(b) ==
  LET st == Utf8Scan(b, 1, Len(b), Utf8Start) IN
  IF st.need > 0 THEN [str |-> st.str \o <<65533>>, ok |-> FALSE]
  ELSE [str |-> st.str, ok |-> st.ok]

\* Buffer.from(hex, 'hex').toString('utf8')
BufferToUtf8(b) == Utf8Decode(b).str

\* Buffer.concat([...]).toString('latin1'): one character per byte
BufferToLatin1(b) == [i \in 1..Len(b) |-> b[i]]

\* Buffer.from(bytes).toString('hex')
BufferToHex(b) == HexDigitsOf(b)

\* ------------------------------------------------------------ ABI coding
Zeros(n) == [i \in 1..n |-> 0]

\* a 32-byte big-endian word
Word(n) == [i \in 1..32 |-> IF i = 31 THEN (n \div 256) % 256 ELSE IF i = 32 THEN n % 256 ELSE 0]

Pad32(b) == b \o Zeros((32 - (Len(b) % 32)) % 32)

\* head/tail encoding of one dynamic value: offset word, length word, data
AbiEncodeBytes(b) == Word(32) \o Word(Len(b)) \o Pad32(b)

AbiEncodeString(s) == AbiEncodeBytes(toUtf8Bytes(s).bytes)

\* Reader.readIndex at 0-based offset off: needs 32 bytes; a value that does
\* not fit the low two bytes is beyond every buffer and overruns at its use
ReadIndex(data, off) ==
  IF off + 32 > Len(data) THEN [ok |-> FALSE, n |-> 0]
  ELSE [ok |-> \A i \in 1..30 : data[off + i] = 0,
        n |-> data[off + 31] * 256 + data[off + 32]]

\* a decode that returns the value with its padding
AbiDecodeBytes_padded(data) ==
  LET o == ReadIndex(data, 0) IN
  IF ~o.ok THEN [ok |-> FALSE, bytes |-> <<>>]
  ELSE LET l == ReadIndex(data, o.n) IN
    IF ~l.ok THEN [ok |-> FALSE, bytes |-> <<>>]
    ELSE IF o.n + 32 + Len(Pad32(Zeros(l.n))) > Len(data) THEN [ok |-> FALSE, bytes |-> <<>>]
    ELSE [ok |-> TRUE, bytes |-> SubSeq(data, o.n + 33, o.n + 32 + Len(Pad32(Zeros(l.n))))]

\* AbiCoder decode of a single dynamic bytes value (strict, not loose)
AbiDecodeBytes(data) ==
  LET o == ReadIndex(data, 0) IN
  IF ~o.ok THEN [ok |-> FALSE, bytes |-> <<>>]
  ELSE LET l == ReadIndex(data, o.n) IN
    IF ~l.ok THEN [ok |-> FALSE, bytes |-> <<>>]
    ELSE IF o.n + 32 + Len(Pad32(Zeros(l.n))) > Len(data) THEN [ok |-> FALSE, bytes |-> <<>>]
    ELSE [ok |-> TRUE, bytes |-> SubSeq(data, o.n + 33, o.n + 32 + l.n)]

\* AbiCoder decode of a single string: the bytes, then strict UTF-8
AbiDecodeString(data) ==
  LET d == AbiDecodeBytes(data) IN
  IF ~d.ok THEN [ok |-> FALSE, str |-> <<>>]
  ELSE LET u == Utf8Decode(d.bytes) IN
    IF u.ok THEN [ok |-> TRUE, str |-> u.str] ELSE [ok |-> FALSE, str |-> <<>>]

\* Interface.encodeFunctionData(sig, [ZERO_NODE, key]): the selector (named by
\* its signature) and the arguments: bytes32 node, offset of the string
\* (two head words = 64), then length and UTF-8 bytes of the string
encodeFunctionData(sig, node, k) ==
  LET u == toUtf8Bytes(k).bytes IN
  [selector |-> sig, args |-> node \o Word(64) \o Word(Len(u)) \o Pad32(u)]

\* the zero-filled namespace node
ZERO_NODE == Zeros(32)

\* the string argument of a call payload as the callee reads it: the bytes
\* at the offset given by the second head word
WireKey(call) ==
  LET off == ReadIndex(call.args, 32).n
      len == ReadIndex(call.args, off).n
  IN SubSeq(call.args, off + 33, off + 32 + len)

\* composeDisplayName
composeDisplayName(name) == name \o Suffix

\* ------------------------------------------------------ inputs of a run
\* characters of the enumerated prompt answers: space - 0 1 a x
InAlphabet == {32, 45, 48, 49, 97, 120}

SeqsUpTo(S, n) == UNION {[1..k -> S] : k \in 0..n}

\* longer answers to the "Chain ID" prompt:
\* "0x0a", "0x000000010001010a00", "0xff", "0X0a", "255"
ScenarioInputs ==
  {<<48, 120, 48, 97>>,
   <<48, 120, 48, 48, 48, 48, 48, 48, 48, 49, 48, 48, 48, 49, 48, 49, 48, 97, 48, 48>>,
   <<48, 120, 102, 102>>,
   <<48, 88, 48, 97>>,
   <<50, 53, 53>>}

ChainIdAnswers == SeqsUpTo(InAlphabet, MaxInLen) \cup ScenarioInputs

\* addresses: the saved deployment "0xd0", CHAIN_RESOLVER_ADDRESS "0xc0",
\* RESOLVER_ADDRESS "0xe0", the one typed at the prompt "0xf0"
DeployedAddress == <<48, 120, 100, 48>>

EnvChainValues == {<<>>, <<48, 120, 99, 48>>}

EnvResolverValues == {<<>>, <<48, 120, 101, 48>>}

AddressAnswers == {<<>>, <<32>>, <<32, 48, 120, 102, 48, 32>>}

\* outcomes of loadDeployment and of provider.getCode
LoadOutcomes == {"throws", "found"}

CodeOutcomes == {"throws", "", "0x", "0x60"}

\* names a resolver may hold: "", "optimism", "testchain", e-acute, the euro sign, and one outside the BMP
Names ==
  {<<>>,
   <<111, 112, 116, 105, 109, 105, 115, 109>>,
   <<116, 101, 115, 116, 99, 104, 97, 105, 110>>,
   <<233>>,
   <<8364>>,
   <<55357, 56832>>}

\* names returned under the text selector: "", "optimism", e-acute
TextNames == {<<>>, <<111, 112, 116, 105, 109, 105, 115, 109>>, <<233>>}

\* messages of a failed resolver call
FailureMessages == {"network error", "execution reverted", "missing contract code"}

Failures == {[kind |-> "fail", msg |-> m, bytes |-> <<>>] : m \in FailureMessages}

Answer(b) == [kind |-> "ok", msg |-> "", bytes |-> b]

\* resolve(...) under the text selector: a failure, the ABI encoding of a
\* string, or an empty return ("0x")
TextResults == Failures \cup {Answer(AbiEncodeString(s)) : s \in TextNames} \cup {Answer(<<>>)}

\* bytes of the raw answers: 't', 0xc3, 0xa9
RawAlphabet == {116, 195, 169}

\* what a resolver may return as the bytes value under the data selector:
\* an ABI-encoded string, the bare UTF-8 bytes of a name, short raw bytes,
\* a truncated encoding, an encoding whose string is not UTF-8, 32 zero bytes
EncodedValues ==
  {AbiEncodeString(s) : s \in Names}
    \cup {toUtf8Bytes(s).bytes : s \in Names}
    \cup SeqsUpTo(RawAlphabet, MaxRawLen)
    \cup {SubSeq(AbiEncodeString(<<111, 112, 116, 105, 109, 105, 115, 109>>), 1, 64),
          AbiEncodeBytes(<<255>>),
          Zeros(32)}

DataResults == Failures \cup {Answer(AbiEncodeBytes(e)) : e \in EncodedValues} \cup {Answer(<<>>)}

DirectResults == Failures \cup {[kind |-> "ok", msg |-> "", bytes |-> <<111, 112, 116, 105, 109, 105, 115, 109>>]}

\* ---------------------------------------------------------------- state
VARIABLES
  variant,          \* "hex": deploy/ReverseResolveByChainId.ts, "raw": part_000
  envChain,         \* process.env.CHAIN_RESOLVER_ADDRESS ("" when unset)
  envResolver,      \* process.env.RESOLVER_ADDRESS
  pc,               \* position of the script
  found,            \* address of the saved deployment, inside the locate block
  code,             \* code at that address ("unset" when not read)
  resolverAddress,
  prompts,          \* questions asked so far, with the answers typed
  cidIn,            \* trimmed answer to the chain ID prompt
  chainIdBytes,
  key,
  tcall,
  dcall,
  tstatus,          \* outcome of the text resolve call: "none", "failed", "answered"
  dstatus,          \* outcome of the data resolve call
  encoded,          \* hex string returned under the data selector
  fallback,         \* TRUE once the raw UTF-8 fallback has run
  textName,
  dataName,
  out,              \* console.log lines
  err,              \* console.error lines
  calls,            \* calls made on the resolver contract
  thrown,           \* exception leaving the outer try ("" when none)
  exitCode,         \* -1 while running
  shutdownCalls     \* number of shutdownSmith calls

vars == <<variant, envChain, envResolver, pc, found, code, resolverAddress, prompts, cidIn,
          chainIdBytes, key, tcall, dcall, tstatus, dstatus, encoded, fallback,
          textName, dataName, out, err, calls, thrown, exitCode, shutdownCalls>>

NoCall == [selector |-> "", args |-> <<>>]

Init ==
  /\ variant \in {"hex", "raw"}
  /\ envChain \in EnvChainValues
  /\ envResolver \in EnvResolverValues
  /\ pc = "locate"
  /\ found = Undefined
  /\ code = "unset"
  /\ resolverAddress = Undefined
  /\ prompts = <<>>
  /\ cidIn = Undefined
  /\ chainIdBytes = Undefined
  /\ key = Undefined
  /\ tcall = NoCall
  /\ dcall = NoCall
  /\ tstatus = "none"
  /\ dstatus = "none"
  /\ encoded = Undefined
  /\ fallback = FALSE
  /\ textName = Undefined
  /\ dataName = Undefined
  /\ out = <<>>
  /\ err = <<>>
  /\ calls = <<>>
  /\ thrown = ""
  /\ exitCode = -1
  /\ shutdownCalls = 0

\* process.exit(1): the process ends at once, no finally block runs
ProcessExit ==
  /\ pc' = "exited"
  /\ exitCode' = 1

\* an exception leaves the outer try: its finally block is next
Throw(e) ==
  /\ pc' = "finally"
  /\ thrown' = e

\* lines 18-20: loadDeployment and provider.getCode; either may throw, which
\* the empty catch swallows and which leaves code unset
LoadDeployment ==
  /\ pc = "locate"
  /\ \E load \in LoadOutcomes, c \in CodeOutcomes :
       /\ found' = IF load = "found" THEN DeployedAddress ELSE Undefined
       /\ code' = IF load = "found" /\ c # "throws" THEN c ELSE "unset"
  /\ pc' = "select"
  /\ UNCHANGED <<variant, envChain, envResolver, resolverAddress, prompts, cidIn,
                 chainIdBytes, key, tcall, dcall, tstatus, dstatus, encoded,
                 fallback, textName, dataName, out, err, calls, thrown, exitCode,
                 shutdownCalls>>

\* a selection that takes the saved deployment without looking at its code
LocatedAddress_noCodeCheck(f, c) ==
  IF f # Undefined /\ f # <<>> THEN f
  ELSE IF envChain # <<>> THEN envChain
  ELSE envResolver

\* lines 21-25: the address the script settles on before prompting
LocatedAddress(f, c) ==
  LET saved == IF c \notin {"unset", "", "0x"} THEN f ELSE Undefined IN
  IF saved # Undefined /\ saved # <<>> THEN saved
  ELSE IF envChain # <<>> THEN envChain
  ELSE envResolver

\* use the saved deployment if it has code, else the environment
SelectAddress ==
  /\ pc = "select"
  /\ resolverAddress' = LocatedAddress(found, code)
  /\ pc' = IF resolverAddress' = <<>> THEN "promptAddress" ELSE "askChainId"
  /\ found' = Undefined
  /\ code' = "unset"
  /\ UNCHANGED <<variant, envChain, envResolver, prompts, cidIn, chainIdBytes, key,
                 tcall, dcall, tstatus, dstatus, encoded, fallback, textName,
                 dataName, out, err, calls, thrown, exitCode, shutdownCalls>>

Asked(q, a) == [question |-> q, answer |-> a]

\* ask for the address; an empty one ends the run
PromptAddress ==
  /\ pc = "promptAddress"
  /\ \E a \in AddressAnswers :
       /\ prompts' = Append(prompts, Asked("ChainResolver address: ", a))
       /\ resolverAddress' = trim(a)
       /\ IF resolverAddress' = <<>>
          THEN /\ err' = Append(err, "ChainResolver address is required.")
               /\ ProcessExit
          ELSE /\ pc' = "askChainId"
               /\ UNCHANGED <<err, exitCode>>
  /\ UNCHANGED <<variant, envChain, envResolver, found, code, cidIn, chainIdBytes,
                 key, tcall, dcall, tstatus, dstatus, encoded, fallback, textName,
                 dataName, out, calls, thrown, shutdownCalls>>

\* lines 43-48: the chain identifier of a trimmed answer, or the exception
ParseChainId(c) ==
  IF isHexString(c) THEN
    IF getBytesOk(c) THEN [ok |-> TRUE, bytes |-> getBytes(c), error |-> ""]
    ELSE [ok |-> FALSE, bytes |-> <<>>, error |-> "invalid BytesLike value"]
  ELSE LET n == BigInt(c) IN
    IF ~n.ok THEN [ok |-> FALSE, bytes |-> <<>>, error |-> "SyntaxError: Cannot convert to a BigInt"]
    ELSE LET h == hexlify([kind |-> "bigint", n |-> n.n]) IN
      IF ~h.ok THEN [ok |-> FALSE, bytes |-> <<>>, error |-> "invalid BytesLike value"]
      ELSE IF getBytesOk(h.hex) THEN [ok |-> TRUE, bytes |-> getBytes(h.hex), error |-> ""]
      ELSE [ok |-> FALSE, bytes |-> <<>>, error |-> "invalid BytesLike value"]

\* a hex-suffix key that keeps the 0x of hexlify
hexSuffixKey_with0x(b) == Prefix \o hexlify([kind |-> "bytes", bytes |-> b]).hex

\* hex-suffix script: 'chain-name:' + Buffer.from(chainIdBytes).toString('hex')
hexSuffixKey(b) == Prefix \o BufferToHex(b)

\* a raw-byte key read back as UTF-8 instead of latin1
rawByteKey_utf8(b) == BufferToUtf8(toUtf8Bytes(Prefix).bytes \o b)

\* raw-byte script: Buffer.concat([Buffer.from('chain-name:', 'utf8'),
\* Buffer.from(chainIdBytes)]).toString('latin1')
rawByteKey(b) == BufferToLatin1(toUtf8Bytes(Prefix).bytes \o b)

\* the lookup key of each script
buildKey(b, v) == IF v = "hex" THEN hexSuffixKey(b) ELSE rawByteKey(b)

\* Input chainId and build the key
InputChainId ==
  /\ pc = "askChainId"
  /\ \E a \in ChainIdAnswers :
       LET p == ParseChainId(trim(a)) IN
       /\ prompts' = Append(prompts, Asked("Chain ID (0x.. hex or decimal): ", a))
       /\ cidIn' = trim(a)
       /\ IF p.ok
          THEN /\ chainIdBytes' = p.bytes
               /\ key' = buildKey(p.bytes, variant)
               /\ pc' = "reverseText"
               /\ UNCHANGED thrown
          ELSE /\ Throw(p.error)
               /\ UNCHANGED <<chainIdBytes, key>>
  /\ UNCHANGED <<variant, envChain, envResolver, found, code, resolverAddress,
                 tcall, dcall,
                 tstatus, dstatus, encoded, fallback, textName, dataName, out,
                 err, calls, exitCode, shutdownCalls>>

Line(label, value) == [label |-> label, value |-> value]

\* a fallback that reads the value one character per byte
decodeDataResult_latin1(enc) ==
  LET first == AbiDecodeString(getBytes(enc)) IN
  IF first.ok THEN [name |-> first.str, fallback |-> FALSE]
  ELSE [name |-> BufferToLatin1(BufferFromHex(Strip0x(enc))), fallback |-> TRUE]

\* decode of the bytes value returned under the data selector: the ABI
\* string first, the whole value as UTF-8 when that throws
decodeDataResult(enc) ==
  LET first == AbiDecodeString(getBytes(enc)) IN
  IF first.ok THEN [name |-> first.str, fallback |-> FALSE]
  ELSE [name |-> BufferToUtf8(BufferFromHex(Strip0x(enc))), fallback |-> TRUE]

\* Reverse via text selector
ReverseText ==
  /\ pc = "reverseText"
  /\ tcall' = encodeFunctionData("text(bytes32,string)", ZERO_NODE, key)
  /\ calls' = Append(calls, "resolve:text")
  /\ \E r \in TextResults :
       LET d == AbiDecodeString(r.bytes) IN
       /\ tstatus' = IF r.kind = "fail" THEN "failed" ELSE "answered"
       /\ IF variant = "raw"
          THEN IF r.kind = "fail" \/ ~d.ok
               THEN /\ err' = Append(err, IF r.kind = "fail" THEN r.msg
                                          ELSE "could not decode result data")
                    /\ ProcessExit
                    /\ UNCHANGED <<textName, out>>
               ELSE /\ textName' = d.str
                    /\ out' = out \o <<Line("Chain name (text):", d.str),
                                       Line("ENS name (text):", composeDisplayName(d.str))>>
                    /\ pc' = "reverseData"
                    /\ UNCHANGED <<err, exitCode>>
          ELSE /\ textName' = IF r.kind = "fail" \/ ~d.ok THEN <<>> ELSE d.str
               /\ pc' = "reverseData"
               /\ UNCHANGED <<err, exitCode, out>>
  /\ UNCHANGED <<variant, envChain, envResolver, found, code, resolverAddress,
                 prompts, cidIn,
                 chainIdBytes, key, dcall, dstatus, encoded, fallback, dataName,
                 thrown, shutdownCalls>>

\* Reverse via data selector
ReverseData ==
  /\ pc = "reverseData"
  /\ dcall' = encodeFunctionData("data(bytes32,string)", ZERO_NODE, key)
  /\ calls' = Append(calls, "resolve:data")
  /\ \E r \in DataResults :
       LET b == AbiDecodeBytes(r.bytes)
           enc == hexlify([kind |-> "bytes", bytes |-> b.bytes]).hex
           d == decodeDataResult(enc)
           bad == r.kind = "fail" \/ ~b.ok
       IN
       /\ dstatus' = IF r.kind = "fail" THEN "failed" ELSE "answered"
       /\ encoded' = IF bad THEN encoded ELSE enc
       /\ fallback' = IF bad THEN fallback ELSE d.fallback
       /\ IF variant = "raw"
          THEN IF bad
               THEN /\ err' = Append(err, IF r.kind = "fail" THEN r.msg
                                          ELSE "could not decode result data")
                    /\ ProcessExit
                    /\ UNCHANGED <<dataName, out>>
               ELSE /\ dataName' = d.name
                    /\ out' = out \o <<Line("Chain name (data):", d.name),
                                       Line("ENS name (data):", composeDisplayName(d.name))>>
                    /\ pc' = "directRead"
                    /\ UNCHANGED <<err, exitCode>>
          ELSE /\ dataName' = IF bad THEN <<>> ELSE d.name
               /\ out' = out \o <<Line("Chain name (text):", textName),
                                  Line("Chain name (data):", dataName')>>
               /\ pc' = "directRead"
               /\ UNCHANGED <<err, exitCode>>
  /\ UNCHANGED <<variant, envChain, envResolver, found, code, resolverAddress,
                 prompts, cidIn,
                 chainIdBytes, key, tcall, tstatus, textName, thrown, shutdownCalls>>

\* Also show the direct read path; its failure is ignored
DirectRead ==
  /\ pc = "directRead"
  /\ calls' = Append(calls, "chainName")
  /\ \E r \in DirectResults :
       out' = IF r.kind = "ok" THEN Append(out, Line("Direct read (chainName):", r.bytes))
              ELSE out
  /\ pc' = "finally"
  /\ UNCHANGED <<variant, envChain, envResolver, found, code, resolverAddress,
                 prompts, cidIn,
                 chainIdBytes, key, tcall, dcall, tstatus, dstatus, encoded,
                 fallback, textName, dataName, err, thrown, exitCode, shutdownCalls>>

\* finally: shutdownSmith, then the run ends; an exception that left the try
\* is an unhandled rejection of the module, exit code 1
Shutdown ==
  /\ pc = "finally"
  /\ shutdownCalls' = shutdownCalls + 1
  /\ pc' = "done"
  /\ exitCode' = IF thrown = "" THEN 0 ELSE 1
  /\ UNCHANGED <<variant, envChain, envResolver, found, code, resolverAddress,
                 prompts, cidIn,
                 chainIdBytes, key, tcall, dcall, tstatus, dstatus, encoded,
                 fallback, textName, dataName, out, err, calls, thrown>>

Next ==
  \/ LoadDeployment
  \/ SelectAddress
  \/ PromptAddress
  \/ InputChainId
  \/ ReverseText
  \/ ReverseData
  \/ DirectRead
  \/ Shutdown

Spec == Init /\ [][Next]_vars

\* ================================================================ claims
Count(seq, x) == Cardinality({i \in 1..Len(seq) : seq[i] = x})

Printed(label) == \E i \in 1..Len(out) : out[i].label = label

Ended == pc \in {"done", "exited"}

\* C1: whenever a resolve call for the text or for the data selector fails, the
\* run reports the failure message and ends with exit code 1 without printing
\* the 'Chain name' line of the failed call and without repeating the call.
C1_TransportFailureSurfaced ==
  /\ tstatus = "failed" =>
       /\ pc = "exited"
       /\ exitCode = 1
       /\ err # <<>>
       /\ err[Len(err)] \in FailureMessages
       /\ ~Printed("Chain name (text):")
       /\ Count(calls, "resolve:text") = 1
  /\ dstatus = "failed" =>
       /\ pc = "exited"
       /\ exitCode = 1
       /\ err # <<>>
       /\ err[Len(err)] \in FailureMessages
       /\ ~Printed("Chain name (data):")
       /\ Count(calls, "resolve:data") = 1

\* a chain ID answer that is 0x followed by an even number of hex digits
ValidHexInput(s) ==
  /\ Len(s) >= 2
  /\ SubSeq(s, 1, 2) = <<48, 120>>
  /\ Len(s) % 2 = 0
  /\ \A i \in 3..Len(s) : s[i] \in (48..57) \cup (65..70) \cup (97..102)

\* a chain ID answer that is a non-empty run of decimal digits
ValidDecimalInput(s) == s # <<>> /\ \A i \in 1..Len(s) : s[i] \in 48..57

Malformed(s) == ~ValidHexInput(s) /\ ~ValidDecimalInput(s)

\* C2: for every chain ID answer that is neither valid hexadecimal nor valid
\* decimal (the empty string, a negative number, an odd-length hex string) the
\* script fails with an exception that leaves the script (exit code 1), derives
\* no chain identifier and no key, and calls neither resolve nor chainName.
C2_MalformedInputFails ==
  (cidIn # Undefined /\ Malformed(cidIn)) =>
     /\ thrown # ""
     /\ pc \in {"finally", "done"}
     /\ pc = "done" => exitCode = 1
     /\ chainIdBytes = Undefined
     /\ key = Undefined
     /\ calls = <<>>

\* the empty, a negative and an odd-length hex answer all ended in failure
C2_Witness ==
  /\ pc = "done"
  /\ exitCode = 1
  /\ cidIn \in {<<>>, <<45, 49>>, <<48, 120, 97>>}
  /\ Malformed(cidIn)
  /\ calls = <<>>

\* C3: the identifier derived from the decimal answer of n equals the one
\* derived from its 0x-prefixed hex answer and is the minimal big-endian byte
\* sequence of n; "10" and "0xa" both give the single byte 0x0a (stated here
\* for n = 10, the answers "10" and "0xa").
C3_DecimalHexAgree ==
  cidIn \in {<<49, 48>>, <<48, 120, 97>>} => chainIdBytes = <<10>>

\* the values a resolver may return under the data selector, as hex strings
EncodedStrings == {<<48, 120>> \o HexDigitsOf(e) : e \in EncodedValues}

\* those that do not decode as the ABI encoding of one string
NotStructured == {e \in EncodedStrings : ~AbiDecodeString(getBytes(e)).ok}

\* the UTF-8 reading of the whole value
WholeAsUtf8 == [e \in EncodedStrings |-> Utf8Decode(getBytes(e)).str]

\* C4: when the bytes returned under the data selector do not decode as the
\* ABI encoding of one string (every value shorter than 32 bytes is such), the
\* fallback runs, the name is the UTF-8 decoding of the whole value, and no
\* error is reported; the bare bytes of "testchain" give "testchain".
C4_FallbackDecodesWhole ==
  encoded # Undefined =>
    /\ Len(encoded) < 2 + 2 * 32 => fallback
    /\ encoded = <<48, 120>> \o <<55, 52, 54, 53, 55, 51, 55, 52, 54, 51, 54, 56, 54, 49, 54, 57, 54, 101>> => dataName = <<116, 101, 115, 116, 99, 104, 97, 105, 110>>
    /\ (fallback \/ encoded \in NotStructured) =>
         /\ fallback
         /\ dataName = WholeAsUtf8[encoded]
         /\ Printed("Chain name (data):")
         /\ err = <<>>
         /\ thrown = ""
         /\ exitCode # 1

\* the bare bytes of "testchain" were returned and decoded by the fallback
C4_Witness ==
  /\ pc = "done"
  /\ exitCode = 0
  /\ encoded = <<48, 120>> \o <<55, 52, 54, 53, 55, 51, 55, 52, 54, 51, 54, 56, 54, 49, 54, 57, 54, 101>>
  /\ fallback
  /\ dataName = <<116, 101, 115, 116, 99, 104, 97, 105, 110>>

\* the hex string of the ABI encoding of each name: offset word 0x20, length
\* word, UTF-8 bytes padded to a multiple of 32
StructuredAnswer ==
  [s \in Names |->
     <<48, 120>> \o HexDigitsOf(Word(32) \o Word(Len(toUtf8Bytes(s).bytes))
                                \o Pad32(toUtf8Bytes(s).bytes))]

\* C5: when the bytes returned under the data selector are the ABI encoding of
\* one string s, the structured decode succeeds, the name is s and the
\* fallback does not run; identifier 0x000000010001010a00 with a structured
\* answer for "optimism" gives "optimism".
C5_StructuredDecodeFirst ==
  encoded # Undefined =>
    \A s \in Names : encoded = StructuredAnswer[s] => (~fallback /\ dataName = s)

\* the hex-suffix script got the structured answer "optimism" for
\* identifier 0x000000010001010a00
C5_Witness ==
  /\ pc = "done"
  /\ variant = "hex"
  /\ chainIdBytes = <<0, 0, 0, 1, 0, 1, 1, 10, 0>>
  /\ dcall.selector = "data(bytes32,string)"
  /\ encoded = StructuredAnswer[<<111, 112, 116, 105, 109, 105, 115, 109>>]
  /\ ~fallback
  /\ dataName = <<111, 112, 116, 105, 109, 105, 115, 109>>

\* C6: the key of the hex-suffix script is "chain-name:" followed by the
\* lowercase hex digits of the identifier, two per byte, no 0x, no separator:
\* length 11 + 2*len(b); 0x000000010001010a00 gives
\* "chain-name:000000010001010a00".
C6_HexSuffixKey ==
  (variant = "hex" /\ key # Undefined) =>
    LET lower == <<48, 49, 50, 51, 52, 53, 54, 55, 56, 57, 97, 98, 99, 100, 101, 102>> IN
    /\ Len(key) = 11 + 2 * Len(chainIdBytes)
    /\ SubSeq(key, 1, 11) = <<99, 104, 97, 105, 110, 45, 110, 97, 109, 101, 58>>
    /\ \A i \in 1..Len(chainIdBytes) :
         /\ key[11 + 2 * i - 1] = lower[(chainIdBytes[i] \div 16) + 1]
         /\ key[11 + 2 * i] = lower[(chainIdBytes[i] % 16) + 1]
    /\ chainIdBytes = <<0, 0, 0, 1, 0, 1, 1, 10, 0>> => key = <<99, 104, 97, 105, 110, 45, 110, 97, 109, 101, 58, 48, 48, 48, 48, 48, 48, 48, 49, 48, 48, 48, 49, 48, 49, 48, 97, 48, 48>>

\* the hex-suffix key of 0x000000010001010a00 was built and sent
C6_Witness ==
  /\ variant = "hex"
  /\ chainIdBytes = <<0, 0, 0, 1, 0, 1, 1, 10, 0>>
  /\ key = <<99, 104, 97, 105, 110, 45, 110, 97, 109, 101, 58, 48, 48, 48, 48, 48, 48, 48, 49, 48, 48, 48, 49, 48, 49, 48, 97, 48, 48>>
  /\ tcall.selector = "text(bytes32,string)"

\* C7: the key of the raw-byte script starts with the 11 characters
\* "chain-name:", has length 11 + len(b), and its character at position 11+i
\* has the code of byte b[i], bytes 0x80..0xff included.
C7_RawByteKey ==
  (variant = "raw" /\ key # Undefined) =>
    /\ Len(key) = 11 + Len(chainIdBytes)
    /\ SubSeq(key, 1, 11) = <<99, 104, 97, 105, 110, 45, 110, 97, 109, 101, 58>>
    /\ \A i \in 1..Len(chainIdBytes) : key[11 + i] = chainIdBytes[i]

\* the raw-byte key of the identifier 0xff was built
C7_Witness ==
  /\ variant = "raw"
  /\ chainIdBytes = <<255>>
  /\ key = <<99, 104, 97, 105, 110, 45, 110, 97, 109, 101, 58>> \o <<255>>
  /\ pc = "reverseText"

\* C8: in the raw-byte script the key string carried inside the text and the
\* data call payloads is, as bytes, "chain-name:" followed by the bytes of the
\* identifier unchanged, also for bytes in 0x80..0xff.
C8_RawKeyOnWire ==
  /\ (variant = "raw" /\ tcall # NoCall) => WireKey(tcall) = <<99, 104, 97, 105, 110, 45, 110, 97, 109, 101, 58>> \o chainIdBytes
  /\ (variant = "raw" /\ dcall # NoCall) => WireKey(dcall) = <<99, 104, 97, 105, 110, 45, 110, 97, 109, 101, 58>> \o chainIdBytes

\* C9: a run that has ended has called shutdownSmith exactly once, also when
\* it ended through process.exit(1).
C9_ShutdownBeforeEnd == Ended => shutdownCalls = 1

\* the answer typed to a question, with the spaces at both ends removed
Trimmed(a, r) ==
  \E i, j \in 0..Len(a) :
    /\ i + j <= Len(a)
    /\ r = SubSeq(a, i + 1, Len(a) - j)
    /\ \A k \in 1..i : a[k] = 32
    /\ \A k \in (Len(a) - j + 1)..Len(a) : a[k] = 32
    /\ r # <<>> => (r[1] # 32 /\ r[Len(r)] # 32)

C10_Step ==
  /\ pc = "select" =>
       LET usable == found # Undefined /\ code \notin {"unset", "", "0x"} IN
       /\ resolverAddress' = IF usable THEN found
                             ELSE IF envChain # <<>> THEN envChain
                             ELSE IF envResolver # <<>> THEN envResolver
                             ELSE <<>>
       /\ (pc' = "promptAddress") <=> (~usable /\ envChain = <<>> /\ envResolver = <<>>)
       /\ (pc' = "askChainId") <=> (usable \/ envChain # <<>> \/ envResolver # <<>>)
       /\ prompts' = prompts
  /\ (Len(prompts') > Len(prompts)
        /\ prompts'[Len(prompts')].question = "ChainResolver address: ") =>
       /\ pc = "promptAddress"
       /\ resolverAddress = <<>>
       /\ prompts = <<>>
       /\ Trimmed(prompts'[Len(prompts')].answer, resolverAddress')
       /\ resolverAddress' # <<>> => pc' = "askChainId"
       /\ resolverAddress' = <<>> =>
            /\ pc' = "exited"
            /\ exitCode' = 1
            /\ err' = <<"ChainResolver address is required.">>
  /\ pc \notin {"locate", "select", "promptAddress"} => resolverAddress' = resolverAddress
  /\ (resolverAddress' = <<>> /\ pc' \notin {"locate", "select", "promptAddress"}) =>
       /\ pc' = "exited"
       /\ prompts' = <<Asked("ChainResolver address: ", prompts'[1].answer)>>
       /\ cidIn' = Undefined
       /\ calls' = <<>>
  /\ (Len(prompts') > Len(prompts)
        /\ prompts'[Len(prompts')].question = "Chain ID (0x.. hex or decimal): ") =>
       (resolverAddress # <<>> /\ resolverAddress # Undefined)

\* C10: the address used is the saved deployment's only when it was loaded and
\* has code other than '0x'; otherwise CHAIN_RESOLVER_ADDRESS if non-empty,
\* otherwise RESOLVER_ADDRESS if non-empty, otherwise the trimmed answer to the
\* prompt, which is asked only when the earlier sources gave nothing; an empty
\* final address ends the run with exit code 1 before the chain ID is asked
\* and before any resolver call.
C10_AddressSelection == [][C10_Step]_vars

\* the prompt was answered with nothing but a space and the run ended
C10_Witness ==
  /\ pc = "exited"
  /\ exitCode = 1
  /\ prompts = <<Asked("ChainResolver address: ", <<32>>)>>
  /\ resolverAddress = <<>>
  /\ err = <<"ChainResolver address is required.">>
  /\ calls = <<>>

====
